---- MODULE Spec2Model ----
(***************************************************************************)
(* Model of the batch search of the options service (searchOptionsData)    *)
(* and of the per-contract analysis it runs (processOptionData).           *)
(*                                                                         *)
(* The repository holds two implementations of the service:                *)
(*   "mock": looks the symbol up in an in-module table after a timer;      *)
(*   "api" : fetches /api/options?symbols=<symbol> and parses the reply.   *)
(* impl selects the one a behaviour runs.                                  *)
(*                                                                         *)
(* Units: prices, strikes and premiums are integers in cents; volumes are  *)
(* integers; the clock is an integer in hours and an expiration date the   *)
(* number of its day; edge and                                             *)
(* timeToExpiration are exact rationals [num, den] in lowest terms.        *)
(***************************************************************************)
EXTENDS Integers, Sequences, FiniteSets, TLC

VARIABLES
    impl,              \* which implementation of searchOptionsData runs
    MOCK_OPTIONS_DATA, \* the market data table: symbol -> [symbol, price, options]
    symbols,           \* argument: the symbol list
    options,           \* argument: [hasOnProgress, minEdge, minVolume, minPrice]
    now,               \* the wall clock (new Date()), in hours
    pc,                \* position of the async function; "done" once the promise
                       \* is fulfilled, "raised" once it is rejected
    i,                 \* loop index, 0-based as in the source
    allOpportunities,  \* the result buffer
    response,          \* the settled fetch Response (api), or NoResponse
    progressCalls,     \* log of the onProgress calls: <<current, total, symbol>>
    consoleErrors,     \* log of console.error: the symbols reported
    returned,          \* the value the promise resolved with
    fetchCount,        \* history: position -> number of collaborator calls started
    inFlight,          \* history: positions whose collaborator call is pending
    outcome,           \* history: position -> "pending"|"resolved"|"unknown"|"failed"
    analysed,          \* history: position -> the records processOptionData built
    probe,             \* the arguments of processOptionData when it is run on its
                       \* own: [rawOption, stockPrice, ticker]
    evaluations,       \* the records successive runs of processOptionData returned
    engineCalls,       \* history: the calls of blackScholes and calculateGreeks
                       \* those runs made
    applied,           \* the functions of utils/blackScholes applied on their own,
                       \* each with its arguments and its result
    searchResults,     \* OptionsAnalytics state: [opportunities, isLoading,
                       \* currentSymbol, progress, error]
    searchHistory,     \* OptionsAnalytics state: the recent queries
    connectionStatus,  \* OptionsAnalytics state
    query,             \* SearchBar state: the text of the input
    showHistory,       \* SearchBar state: the history dropdown is open
    searches,          \* the calls of searchOptionsData handleSearch awaits:
                       \* [query, symbols, current], current being the index of
                       \* the next onProgress call
    lastSettled        \* history: how the call that settled last did so

pipelineVars == <<probe, evaluations, engineCalls, applied>>

uiVars == <<searchResults, searchHistory, connectionStatus, query, showHistory,
            searches, lastSettled>>

vars == <<impl, MOCK_OPTIONS_DATA, symbols, options, now, pc, i, allOpportunities,
          response, progressCalls, consoleErrors, returned, fetchCount, inFlight,
          outcome, analysed, pipelineVars, uiVars>>

(***************************************************************************)
(* Bounds                                                                  *)
(***************************************************************************)
MaxSymbols == 3
MaxContracts == 2
MaxNow == 1
MaxEvaluations == 2
\* the longest string given to parseSymbols, in characters
MaxInput == 6
\* the calls of searchOptionsData that may be pending together
MaxSearches == 2

(***************************************************************************)
(* Program constants                                                       *)
(***************************************************************************)
\* 0.045, in thousandths
RISK_FREE_RATE == 45

(***************************************************************************)
(* Exact rational arithmetic for the values the code keeps as doubles      *)
(***************************************************************************)
Abs(n) == IF n < 0 THEN -n ELSE n

RECURSIVE GCD(_, _)
GCD(a, b) == IF b = 0 THEN a ELSE GCD(b, a % b)

Rat(n, d) ==
    LET g == GCD(Abs(n), Abs(d))
        s == IF d < 0 THEN -1 ELSE 1
    IN  [num |-> s * (n \div g), den |-> s * (d \div g)]

RatInt(n) == [num |-> n, den |-> 1]

RatLess(a, b) == a.num * b.den < b.num * a.den

RatGeq(a, b) == a.num * b.den >= b.num * a.den

Max(a, b) == IF a >= b THEN a ELSE b

(***************************************************************************)
(* The market: what the market-data collaborator knows.  Two underlyings   *)
(* are listed; every other symbol is unknown to it.                        *)
(***************************************************************************)
KnownSymbols == {"AAPL", "MSFT"}

SymbolUniverse == KnownSymbols \cup {"ZZZZ", "XYZ"}

SpotPrice(sym) == IF sym = "AAPL" THEN 18550 ELSE 41520

Contract(id, k, exp, type, last, b, a, vol, oi, iv) ==
    [contractSymbol |-> id, strike |-> k, expiration |-> exp, optionType |-> type,
     lastPrice |-> last, bid |-> b, ask |-> a, volume |-> vol,
     openInterest |-> oi, impliedVolatility |-> iv]

\* The contracts a symbol's option chain is drawn from, in chain order.
\* Expirations are day numbers; impliedVolatility is in percent.
ContractPool(sym) ==
    IF sym = "AAPL"
    THEN << Contract("AAPL_C180", 18000, 1, "call", 840, 820, 870, 1, 5420, 28),
            Contract("AAPL_P150", 15000, 1, "put", 10, 8, 12, 890, 3210, 30),
            Contract("AAPL_C185", 18500, 2, "call", 900, 880, 920, 0, 8, 26) >>
    ELSE << Contract("MSFT_C415", 41500, 2, "call", 1260, 1200, 1270, 750, 2890, 25),
            Contract("MSFT_C420", 42000, 1, "call", 1050, 1030, 1070, 2, 12, 24),
            Contract("MSFT_P380", 38000, 2, "put", 9, 8, 10, 100, 900, 22) >>

\* The option chains: the non-empty sub-sequences of the pool, in pool order.
RECURSIVE SubChains(_, _)
SubChains(pool, len) ==
    IF len = 0 THEN {<< >>}
    ELSE IF Len(pool) = 0 THEN {}
    ELSE {<<Head(pool)>> \o t : t \in SubChains(Tail(pool), len - 1)}
         \cup SubChains(Tail(pool), len)

Chains(sym) == UNION {SubChains(ContractPool(sym), n) : n \in 1..MaxContracts}

Markets ==
    {[sym \in KnownSymbols |-> [symbol |-> sym, price |-> SpotPrice(sym), options |-> a[sym]]]
        : a \in {a \in [KnownSymbols -> UNION {Chains(sym) : sym \in KnownSymbols}]
                    : \A sym \in KnownSymbols : a[sym] \in Chains(sym)}}

RECURSIVE SeqsUpTo(_, _)
SeqsUpTo(S, n) ==
    IF n = 0 THEN {<< >>}
    ELSE SeqsUpTo(S, n - 1)
         \cup {Append(q, x) : q \in {q \in SeqsUpTo(S, n - 1) : Len(q) = n - 1}, x \in S}

\* The symbol lists handleSearch passes: parseSymbols returns upper-case tickers,
\* each at most once.
SymbolLists ==
    {q \in SeqsUpTo(SymbolUniverse, MaxSymbols) :
        \A j, k \in 1..Len(q) : q[j] = q[k] => j = k}

(***************************************************************************)
(* utils/blackScholes                                                      *)
(***************************************************************************)
\* The clock counts hours from 21:00 UTC of day 0, the instant the string
\* 'T16:00:00-05:00' names on that day; a date is the number of its day.
HoursPerDay == 24

\* new Date(expirationDate + 'T16:00:00-05:00').getTime(), in hours
ExpiryTime(expirationDate) == HoursPerDay * expirationDate

\* Years to expiration, clamped at 0: diffDays / 365.25 = 4 * diffDays / 1461,
\* with diffDays = diffHours / 24.
calculateTimeToExpiration(expirationDate) ==
    LET expiry == ExpiryTime(expirationDate)
        diffHours == expiry - now
    IN  IF diffHours <= 0 THEN RatInt(0) ELSE Rat(4 * diffHours, 1461 * HoursPerDay)

\* Rationals extended with the double Infinity, written 1/0.
RatInfinity == [num |-> 1, den |-> 0]

IsFinite(a) == a.den # 0

\* a * b, cancelling across before multiplying.
RatMul(a, b) ==
    LET g1 == GCD(Abs(a.num), Abs(b.den))
        g2 == GCD(Abs(b.num), Abs(a.den))
    IN  IF a.num = 0 \/ b.num = 0 THEN RatInt(0)
        ELSE [num |-> (a.num \div g1) * (b.num \div g2),
              den |-> (a.den \div g2) * (b.den \div g1)]

\* a / b for b # 0
RatDiv(a, b) ==
    RatMul(a, IF b.num < 0 THEN [num |-> -b.den, den |-> -b.num]
              ELSE [num |-> b.den, den |-> b.num])

\* The closed form for T > 0 needs ln, exp, sqrt and the normal CDF, which have
\* no exact integer model; its values are taken from this table, one row for each
\* contract of the pool while it is alive: the two prices in cents, then d1, d2,
\* N(d1), N(d2), N(-d1) and N(-d2) in thousandths.  A volatility of 0 makes d1
\* and d2 infinite (shown as 0 here) and the call worth S - K * exp(-r * T).
BlackScholesClosedForm(S, K, T, r, sigma) ==
    LET row ==
          CASE <<S, K, sigma>> = <<18550, 18000, 28>> -> <<800, 170, 461, 381, 678, 648, 322, 352>>
            [] <<S, K, sigma>> = <<18550, 15000, 30>> -> <<3630, 8, 2557, 2471, 995, 993, 5, 7>>
            [] <<S, K, sigma>> = <<18550, 18500, 26>> -> <<800, 650, 123, 49, 549, 519, 451, 481>>
            [] <<S, K, sigma>> = <<41520, 41500, 25>> -> <<1200, 1000, 94, 22, 537, 509, 463, 491>>
            [] <<S, K, sigma>> = <<41520, 42000, 24>> -> <<1000, 1480, -79, -148, 469, 441, 531, 559>>
            [] <<S, K, sigma>> = <<18550, 18000, 0>> -> <<552, 0, 0, 0, 1000, 1000, 0, 0>>
            [] OTHER -> <<3700, 5, 1495, 1432, 933, 924, 67, 76>>
    IN  [callPrice |-> row[1], putPrice |-> row[2], d1 |-> row[3], d2 |-> row[4],
         nd1 |-> row[5], nd2 |-> row[6], nMinusD1 |-> row[7], nMinusD2 |-> row[8]]

\* Variant of blackScholes: the expired branch is taken for T < 0 only.
blackScholes_StrictExpiry(S, K, T, r, sigma) ==
    IF T.num < 0
    THEN [callPrice |-> Max(S - K, 0), putPrice |-> Max(K - S, 0),
          d1 |-> 0, d2 |-> 0,
          nd1 |-> IF S > K THEN 1000 ELSE 0, nd2 |-> IF S > K THEN 1000 ELSE 0,
          nMinusD1 |-> IF S > K THEN 0 ELSE 1000,
          nMinusD2 |-> IF S > K THEN 0 ELSE 1000]
    ELSE BlackScholesClosedForm(S, K, T, r, sigma)

blackScholes(S, K, T, r, sigma) ==
    IF T.num <= 0
    THEN [callPrice |-> Max(S - K, 0), putPrice |-> Max(K - S, 0),
          d1 |-> 0, d2 |-> 0,
          nd1 |-> IF S > K THEN 1000 ELSE 0, nd2 |-> IF S > K THEN 1000 ELSE 0,
          nMinusD1 |-> IF S > K THEN 0 ELSE 1000,
          nMinusD2 |-> IF S > K THEN 0 ELSE 1000]
    ELSE BlackScholesClosedForm(S, K, T, r, sigma)

\* The double NaN
NaN == "NaN"

\* The Greeks for T > 0: delta comes from the same N(d1) and N(-d1) as the
\* prices; gamma, theta, vega and rho are tabulated, in thousandths.  With a
\* volatility of 0 the density at the infinite d1 is 0, so that gamma is 0 / 0.
GreeksClosedForm(S, K, T, r, sigma, optionType) ==
    LET bs == BlackScholesClosedForm(S, K, T, r, sigma)
        \* <<gamma, vega, theta of a call, of a put, rho of a call, of a put>>
        row ==
          CASE <<S, K, sigma>> = <<18550, 18000, 28>> -> <<24, 191, -103, -97, 96, -52>>
            [] <<S, K, sigma>> = <<18550, 15000, 30>> -> <<1, 8, -22, -4, 122, -1>>
            [] <<S, K, sigma>> = <<18550, 18500, 26>> -> <<29, 210, -103, -102, 79, -73>>
            [] <<S, K, sigma>> = <<41520, 41500, 25>> -> <<13, 473, -223, -222, 173, -167>>
            [] <<S, K, sigma>> = <<41520, 42000, 24>> -> <<14, 473, -212, -218, 152, -192>>
            [] <<S, K, sigma>> = <<18550, 18000, 0>> -> <<NaN, 0, -22, 0, 5, 0>>
            [] OTHER -> <<5, 155, -100, -61, 287, -24>>
    IN  [delta |-> IF optionType = "call" THEN bs.nd1 ELSE -bs.nMinusD1,
         gamma |-> row[1],
         theta |-> IF optionType = "call" THEN row[3] ELSE row[4],
         vega |-> row[2],
         rho |-> IF optionType = "call" THEN row[5] ELSE row[6]]

\* Variant of calculateGreeks: no branch for an expired option.
calculateGreeks_NoExpiryBranch(S, K, T, r, sigma, optionType) ==
    GreeksClosedForm(S, K, T, r, sigma, optionType)

calculateGreeks(S, K, T, r, sigma, optionType) ==
    IF T.num <= 0
    THEN [delta |-> 0, gamma |-> 0, theta |-> 0, vega |-> 0, rho |-> 0]
    ELSE GreeksClosedForm(S, K, T, r, sigma, optionType)

\* Variant of calculateEdge: no test for a theoretical price of 0, so the
\* quotient is Infinity there.
calculateEdge_NoZeroTest(marketPrice, theoreticalPrice) ==
    IF theoreticalPrice = 0 THEN RatInfinity
    ELSE Rat((marketPrice - theoreticalPrice) * 100, theoreticalPrice)

\* ((marketPrice - theoreticalPrice) / theoreticalPrice) * 100, exactly.
calculateEdge(marketPrice, theoreticalPrice) ==
    IF theoreticalPrice = 0 THEN RatInt(0)
    ELSE Rat((marketPrice - theoreticalPrice) * 100, theoreticalPrice)

\* ((strike - stockPrice) / stockPrice) * 100
calculateMoneyness(stockPrice, strike) ==
    Rat((strike - stockPrice) * 100, stockPrice)

\* Variant of calculateSpreadPercent: no test for a missing bid or ask, so the
\* quotient is 0 / 0 when both are missing.
calculateSpreadPercent_NoZeroTest(bid, ask) ==
    IF bid + ask = 0 THEN [num |-> 0, den |-> 0]
    ELSE Rat((ask - bid) * 200, bid + ask)

\* ((ask - bid) / ((bid + ask) / 2)) * 100, or 0 without a two-sided quote
calculateSpreadPercent(bid, ask) ==
    IF bid = 0 \/ ask = 0 THEN RatInt(0)
    ELSE Rat((ask - bid) * 200, bid + ask)

hasLiquidityWarning(volume, openInterest) == volume < 1 \/ openInterest < 10

\* Variant of hasSpreadWarning: spreadPercent >= 10.
hasSpreadWarning_Inclusive(spreadPercent) == RatGeq(spreadPercent, RatInt(10))

hasSpreadWarning(spreadPercent) == RatLess(RatInt(10), spreadPercent)

\* Variant of calculateAssignmentProbability: delta * 100 without Math.abs.
calculateAssignmentProbability_Signed(delta, optionType) == Rat(delta * 100, 1000)

\* Math.abs(delta) * 100 for a call and for a put; delta is in thousandths.
calculateAssignmentProbability(delta, optionType) ==
    Rat(Abs(delta) * 100, 1000)

(***************************************************************************)
(* services/optionsService                                                 *)
(***************************************************************************)
\* mock service only
getStrategyType(optionType, moneyness) ==
    IF optionType = "call" /\ moneyness.num < 0 THEN "covered-call"
    ELSE IF optionType = "put" /\ moneyness.num > 0 THEN "cash-secured-put"
    ELSE "speculative"

\* mock service only: (edge / 100) * (365 / (timeToExpiration * 365))
calculateAnnualReturn(edge, timeToExpiration) ==
    IF timeToExpiration.num <= 0 THEN RatInt(0)
    ELSE RatMul(RatDiv(edge, RatInt(100)),
                RatDiv(RatInt(365), RatMul(timeToExpiration, RatInt(365))))

\* The record of one contract, without dataAge and hasStaleDataWarning (see
\* DataQuality).  The mock service names the record by the underlying and puts
\* the contract id in ticker; the api service does the opposite.  Amounts of
\* money are in cents; the Greeks and the d and N values in thousandths.
processOptionData(rawOption, stockPrice, ticker) ==
    LET timeToExpiration == calculateTimeToExpiration(rawOption.expiration)
        moneyness == calculateMoneyness(stockPrice, rawOption.strike)
        bsResult == blackScholes(stockPrice, rawOption.strike, timeToExpiration,
                                 RISK_FREE_RATE, rawOption.impliedVolatility)
        theoreticalPrice == IF rawOption.optionType = "call"
                            THEN bsResult.callPrice ELSE bsResult.putPrice
        greeks == calculateGreeks(stockPrice, rawOption.strike, timeToExpiration,
                                  RISK_FREE_RATE, rawOption.impliedVolatility,
                                  rawOption.optionType)
        edge == calculateEdge(rawOption.lastPrice, theoreticalPrice)
        spreadPercent == calculateSpreadPercent(rawOption.bid, rawOption.ask)
        maxProfit ==
            IF impl = "mock"
            THEN IF rawOption.optionType = "call" THEN RatInfinity
                 ELSE RatInt(rawOption.strike - rawOption.lastPrice)
            ELSE RatInt(rawOption.lastPrice * 100)
        collateralRequired == IF rawOption.optionType = "call"
                              THEN stockPrice * 100 ELSE rawOption.strike * 100
        daysToExpiration == RatMul(timeToExpiration, RatInt(365))
        annualizedReturn ==
            IF impl = "mock" THEN calculateAnnualReturn(edge, timeToExpiration)
            ELSE IF daysToExpiration.num > 0
                 THEN RatMul(RatMul(RatDiv(maxProfit, RatInt(collateralRequired)),
                                    RatDiv(RatInt(365), daysToExpiration)),
                             RatInt(100))
                 ELSE RatInt(0)
    IN  [symbol |-> IF impl = "mock" THEN ticker ELSE rawOption.contractSymbol,
         ticker |-> IF impl = "mock" THEN rawOption.contractSymbol ELSE ticker,
         strike |-> rawOption.strike,
         expiration |-> rawOption.expiration,
         optionType |-> rawOption.optionType,
         lastPrice |-> rawOption.lastPrice,
         bid |-> rawOption.bid,
         ask |-> rawOption.ask,
         volume |-> rawOption.volume,
         openInterest |-> rawOption.openInterest,
         stockPrice |-> stockPrice,
         timeToExpiration |-> timeToExpiration,
         riskFreeRate |-> RISK_FREE_RATE,
         impliedVolatility |-> rawOption.impliedVolatility,
         theoreticalPrice |-> theoreticalPrice,
         edge |-> edge,
         delta |-> greeks.delta,
         gamma |-> greeks.gamma,
         theta |-> greeks.theta,
         vega |-> greeks.vega,
         rho |-> greeks.rho,
         moneyness |-> moneyness,
         bidAskSpread |-> rawOption.ask - rawOption.bid,
         bidAskSpreadPercent |-> spreadPercent,
         strategyType |-> IF impl = "mock"
                          THEN getStrategyType(rawOption.optionType, moneyness)
                          ELSE IF rawOption.optionType = "call"
                               THEN "covered-call" ELSE "cash-secured-put",
         breakevenPrice |-> IF rawOption.optionType = "call"
                            THEN rawOption.strike + rawOption.lastPrice
                            ELSE rawOption.strike - rawOption.lastPrice,
         maxProfit |-> maxProfit,
         collateralRequired |-> collateralRequired,
         annualizedReturn |-> annualizedReturn,
         assignmentProbability |->
             calculateAssignmentProbability(greeks.delta, rawOption.optionType),
         d1 |-> bsResult.d1,
         d2 |-> bsResult.d2,
         nd1 |-> bsResult.nd1,
         nd2 |-> bsResult.nd2,
         priceSource |-> "last",
         hasLiquidityWarning |-> hasLiquidityWarning(rawOption.volume,
                                                     rawOption.openInterest),
         hasSpreadWarning |-> hasSpreadWarning(spreadPercent)]

\* Math.random(), in fifths: k stands for k / 5.
MathRandom == 0..4

\* Variant of the data-quality fields: an age of Math.random() * 30 minutes.
DataQuality_HalfHourAge(random) ==
    LET dataAge == IF impl = "mock" THEN 0 ELSE (random * 30) \div 5
    IN  [dataAge |-> dataAge,
         hasStaleDataWarning |-> IF impl = "mock" THEN FALSE ELSE dataAge > 15]

\* dataAge (minutes) and hasStaleDataWarning: the mock service sets 0 and false;
\* the api service sets Math.random() * 5 and dataAge > 15.
DataQuality(random) ==
    LET dataAge == IF impl = "mock" THEN 0 ELSE (random * 5) \div 5
    IN  [dataAge |-> dataAge,
         hasStaleDataWarning |-> IF impl = "mock" THEN FALSE ELSE dataAge > 15]

\* symbolData.options.map(option => processOptionData(option, price, symbol))
MapOptions(symbolData) ==
    [k \in 1..Len(symbolData.options) |->
        processOptionData(symbolData.options[k], symbolData.price, symbolData.symbol)]

\* A filter the caller left out of the options object reads as undefined.
IsGiven(name) == name \in DOMAIN options

\* The bound the filter compares with.  The mock service destructures the
\* options with defaults, { minEdge = 5, minVolume = 1, minPrice = 0.10 }; the
\* api service reads options.minEdge, options.minVolume and options.minPrice.
\* Only called for a bound that IsBound.
Bound(name) ==
    IF IsGiven(name) THEN options[name]
    ELSE CASE name = "minEdge" -> 5
           [] name = "minVolume" -> 1
           [] name = "minPrice" -> 10

\* x >= undefined is false
IsBound(name) == IsGiven(name) \/ impl = "mock"

\* Variant of FilterCriteria: the edge bound is exclusive.
FilterCriteria_ExclusiveEdge(option) ==
    /\ IsBound("minEdge") /\ RatLess(RatInt(Bound("minEdge")), option.edge)
    /\ IsBound("minVolume") /\ option.volume >= Bound("minVolume")
    /\ IsBound("minPrice") /\ option.lastPrice >= Bound("minPrice")

\* The predicate of symbolOptions.filter(...)
FilterCriteria(option) ==
    /\ IsBound("minEdge") /\ RatGeq(option.edge, RatInt(Bound("minEdge")))
    /\ IsBound("minVolume") /\ option.volume >= Bound("minVolume")
    /\ IsBound("minPrice") /\ option.lastPrice >= Bound("minPrice")

\* Array.prototype.sort with (a, b) => b.edge - a.edge: a goes after b when the
\* comparator is positive, and elements that compare equal keep their order.
CompareEdge(a, b) ==
    IF RatLess(a.edge, b.edge) THEN 1 ELSE IF RatLess(b.edge, a.edge) THEN -1 ELSE 0

\* Variant of InsertSorted: an element goes before the ones it compares equal to.
RECURSIVE InsertSorted_Unstable(_, _)
InsertSorted_Unstable(sorted, x) ==
    IF sorted = << >> THEN <<x>>
    ELSE IF CompareEdge(Head(sorted), x) >= 0
         THEN <<x>> \o sorted
         ELSE <<Head(sorted)>> \o InsertSorted_Unstable(Tail(sorted), x)

RECURSIVE InsertSorted(_, _)
InsertSorted(sorted, x) ==
    IF sorted = << >> THEN <<x>>
    ELSE IF CompareEdge(Head(sorted), x) > 0
         THEN <<x>> \o sorted
         ELSE <<Head(sorted)>> \o InsertSorted(Tail(sorted), x)

RECURSIVE SortByEdge(_)
SortByEdge(arr) ==
    IF arr = << >> THEN << >>
    ELSE InsertSorted(SortByEdge(SubSeq(arr, 1, Len(arr) - 1)), arr[Len(arr)])

(***************************************************************************)
(* api/options/route: the handler behind fetch(`/api/options?symbols=...`) *)
(* for a single upper-case ticker, on which trim and toUpperCase change    *)
(* nothing.                                                                *)
(***************************************************************************)
GET(symbolsParam) ==
    LET results == IF symbolsParam \in DOMAIN MOCK_OPTIONS_DATA
                   THEN <<MOCK_OPTIONS_DATA[symbolsParam]>> ELSE << >>
    IN  IF Len(results) = 0
        THEN [ok |-> FALSE, status |-> 404, isJson |-> TRUE, body |-> << >>]
        ELSE [ok |-> TRUE, status |-> 200, isJson |-> TRUE, body |-> results]

NoResponse == [ok |-> FALSE, status |-> 0, isJson |-> FALSE, body |-> << >>]

\* What a settled fetch can carry: the route's answer, a server error, a body
\* that is not JSON, or (for a symbol without data) an empty result list.
Responses(symbol) ==
    {GET(symbol),
     [ok |-> FALSE, status |-> 500, isJson |-> FALSE, body |-> << >>],
     [ok |-> TRUE, status |-> 200, isJson |-> FALSE, body |-> << >>]}
    \cup (IF symbol \in DOMAIN MOCK_OPTIONS_DATA THEN {}
          ELSE {[ok |-> TRUE, status |-> 200, isJson |-> TRUE, body |-> << >>]})

(***************************************************************************)
(* searchOptionsData                                                       *)
(***************************************************************************)
Positions == 1..Len(symbols)

\* options.onProgress(current, total, symbol), when the caller gave one
onProgress(current, total, symbol) ==
    IF options.hasOnProgress
    THEN Append(progressCalls, <<current, total, symbol>>)
    ELSE progressCalls

\* The arguments OptionsAnalytics.handleSearch passes: a progress callback, the
\* minEdge of the page (in percent), minVolume 1 and minPrice 0.10 (10 cents).
SearchArguments ==
    [hasOnProgress : {TRUE}, minEdge : {0, 5}, minVolume : {1}, minPrice : {10}]

\* No run of processOptionData on its own.
NoProbe == [rawOption |-> << >>, stockPrice |-> 0, ticker |-> ""]

\* error: null
NoError == "null"

NothingSettled == [outcome |-> "none", results |-> << >>]

\* The useState initial values of OptionsAnalytics and SearchBar.
InitialRender ==
    /\ searchResults = [opportunities |-> << >>, isLoading |-> FALSE,
                        currentSymbol |-> << >>, progress |-> RatInt(0),
                        error |-> NoError]
    /\ searchHistory = << >>
    /\ connectionStatus = "connected"
    /\ query = << >>
    /\ showHistory = FALSE
    /\ searches = << >>
    /\ lastSettled = NothingSettled

Init ==
    /\ impl \in {"mock", "api"}
    /\ MOCK_OPTIONS_DATA \in Markets
    /\ symbols \in SymbolLists
    /\ options \in SearchArguments
    /\ now = 0
    /\ pc = "loop"
    /\ i = 0
    /\ allOpportunities = << >>
    /\ response = NoResponse
    /\ progressCalls = << >>
    /\ consoleErrors = << >>
    /\ returned = << >>
    /\ fetchCount = [k \in Positions |-> 0]
    /\ inFlight = {}
    /\ outcome = [k \in Positions |-> "pending"]
    /\ analysed = [k \in Positions |-> << >>]
    /\ probe = NoProbe
    /\ evaluations = << >>
    /\ engineCalls = << >>
    /\ applied = << >>
    /\ InitialRender

\* Variant of ReportProgress: the index reported is one-based.
ReportProgress_OneBased ==
    /\ pc = "loop"
    /\ i < Len(symbols)
    /\ progressCalls' = onProgress(i + 1, Len(symbols), symbols[i + 1])
    /\ pc' = "request"
    /\ UNCHANGED <<uiVars, pipelineVars, impl, MOCK_OPTIONS_DATA, symbols, options, now, i, allOpportunities,
                   response, consoleErrors, returned, fetchCount, inFlight, outcome,
                   analysed>>

\* Variant of ReportProgress: the label is the symbol processed just before.
ReportProgress_PreviousLabel ==
    /\ pc = "loop"
    /\ i < Len(symbols)
    /\ progressCalls' = onProgress(i, Len(symbols), IF i = 0 THEN "" ELSE symbols[i])
    /\ pc' = "request"
    /\ UNCHANGED <<uiVars, pipelineVars, impl, MOCK_OPTIONS_DATA, symbols, options, now, i, allOpportunities,
                   response, consoleErrors, returned, fetchCount, inFlight, outcome,
                   analysed>>

\* for (...; i < symbols.length; ...) { const symbol = symbols[i]; onProgress(i, ...)
ReportProgress ==
    /\ pc = "loop"
    /\ i < Len(symbols)
    /\ progressCalls' = onProgress(i, Len(symbols), symbols[i + 1])
    /\ pc' = "request"
    /\ UNCHANGED <<uiVars, pipelineVars, impl, MOCK_OPTIONS_DATA, symbols, options, now, i, allOpportunities,
                   response, consoleErrors, returned, fetchCount, inFlight, outcome,
                   analysed>>

\* mock: await new Promise(resolve => setTimeout(resolve, ...)), the simulated call
StartDelay ==
    /\ pc = "request"
    /\ impl = "mock"
    /\ pc' = "delay"
    /\ fetchCount' = [fetchCount EXCEPT ![i + 1] = @ + 1]
    /\ inFlight' = inFlight \cup {i + 1}
    /\ UNCHANGED <<uiVars, pipelineVars, impl, MOCK_OPTIONS_DATA, symbols, options, now, i, allOpportunities,
                   response, progressCalls, consoleErrors, returned, outcome, analysed>>

\* Variant of MockLookup: no check for a missing entry, so reading the option
\* chain of an unknown symbol throws.
MockLookup_ThrowOnUnknown ==
    /\ pc = "delay"
    /\ impl = "mock"
    /\ LET symbol == symbols[i + 1]
       IN  IF symbol \notin DOMAIN MOCK_OPTIONS_DATA
           THEN /\ pc' = "raised"
                /\ UNCHANGED <<allOpportunities, analysed, outcome, i>>
           ELSE LET symbolOptions == MapOptions(MOCK_OPTIONS_DATA[symbol])
                    filteredOptions == SelectSeq(symbolOptions, FilterCriteria)
                IN  /\ allOpportunities' = allOpportunities \o filteredOptions
                    /\ analysed' = [analysed EXCEPT ![i + 1] = symbolOptions]
                    /\ outcome' = [outcome EXCEPT ![i + 1] = "resolved"]
                    /\ i' = i + 1
                    /\ pc' = "loop"
    /\ inFlight' = inFlight \ {i + 1}
    /\ UNCHANGED <<uiVars, pipelineVars, impl, MOCK_OPTIONS_DATA, symbols, options, now, response,
                   progressCalls, consoleErrors, returned, fetchCount>>

\* mock: the timer fired; look the symbol up, skip it or process its chain
MockLookup ==
    /\ pc = "delay"
    /\ impl = "mock"
    /\ LET symbol == symbols[i + 1]
       IN  IF symbol \notin DOMAIN MOCK_OPTIONS_DATA
           THEN /\ outcome' = [outcome EXCEPT ![i + 1] = "unknown"]
                /\ UNCHANGED <<allOpportunities, analysed>>
           ELSE LET symbolOptions == MapOptions(MOCK_OPTIONS_DATA[symbol])
                    filteredOptions == SelectSeq(symbolOptions, FilterCriteria)
                IN  /\ allOpportunities' = allOpportunities \o filteredOptions
                    /\ analysed' = [analysed EXCEPT ![i + 1] = symbolOptions]
                    /\ outcome' = [outcome EXCEPT ![i + 1] = "resolved"]
    /\ inFlight' = inFlight \ {i + 1}
    /\ i' = i + 1
    /\ pc' = "loop"
    /\ UNCHANGED <<uiVars, pipelineVars, impl, MOCK_OPTIONS_DATA, symbols, options, now, response,
                   progressCalls, consoleErrors, returned, fetchCount>>

\* Variant of StartFetch: the fetch is issued but not awaited, and the loop
\* goes on to the next symbol.
StartFetch_NoAwait ==
    /\ pc = "request"
    /\ impl = "api"
    /\ pc' = "loop"
    /\ i' = i + 1
    /\ fetchCount' = [fetchCount EXCEPT ![i + 1] = @ + 1]
    /\ inFlight' = inFlight \cup {i + 1}
    /\ UNCHANGED <<uiVars, pipelineVars, impl, MOCK_OPTIONS_DATA, symbols, options, now, allOpportunities,
                   response, progressCalls, consoleErrors, returned, outcome, analysed>>

\* api: try { const response = await fetch(`/api/options?symbols=${symbol}`)
StartFetch ==
    /\ pc = "request"
    /\ impl = "api"
    /\ pc' = "fetch"
    /\ fetchCount' = [fetchCount EXCEPT ![i + 1] = @ + 1]
    /\ inFlight' = inFlight \cup {i + 1}
    /\ UNCHANGED <<uiVars, pipelineVars, impl, MOCK_OPTIONS_DATA, symbols, options, now, i, allOpportunities,
                   response, progressCalls, consoleErrors, returned, outcome, analysed>>

\* Variant of Catch: the handler leaves the loop.
Catch_Break ==
    /\ consoleErrors' = Append(consoleErrors, symbols[i + 1])
    /\ outcome' = [outcome EXCEPT ![i + 1] = "failed"]
    /\ inFlight' = inFlight \ {i + 1}
    /\ response' = NoResponse
    /\ i' = Len(symbols)
    /\ pc' = "loop"
    /\ UNCHANGED <<uiVars, pipelineVars, impl, MOCK_OPTIONS_DATA, symbols, options, now, allOpportunities,
                   progressCalls, returned, fetchCount, analysed>>

\* Variant of Catch: the handler starts the result buffer afresh.
Catch_ClearBuffer ==
    /\ consoleErrors' = Append(consoleErrors, symbols[i + 1])
    /\ outcome' = [outcome EXCEPT ![i + 1] = "failed"]
    /\ inFlight' = inFlight \ {i + 1}
    /\ response' = NoResponse
    /\ allOpportunities' = << >>
    /\ i' = i + 1
    /\ pc' = "loop"
    /\ UNCHANGED <<uiVars, pipelineVars, impl, MOCK_OPTIONS_DATA, symbols, options, now,
                   progressCalls, returned, fetchCount, analysed>>

\* Variant of Catch: the handler logs and throws the error again.
Catch_Rethrow ==
    /\ consoleErrors' = Append(consoleErrors, symbols[i + 1])
    /\ outcome' = [outcome EXCEPT ![i + 1] = "failed"]
    /\ inFlight' = inFlight \ {i + 1}
    /\ response' = NoResponse
    /\ pc' = "raised"
    /\ UNCHANGED <<uiVars, pipelineVars, impl, MOCK_OPTIONS_DATA, symbols, options, now, i, allOpportunities,
                   progressCalls, returned, fetchCount, analysed>>

\* api: catch (error) { console.error(...) } and on to the next symbol
Catch ==
    /\ consoleErrors' = Append(consoleErrors, symbols[i + 1])
    /\ outcome' = [outcome EXCEPT ![i + 1] = "failed"]
    /\ inFlight' = inFlight \ {i + 1}
    /\ response' = NoResponse
    /\ i' = i + 1
    /\ pc' = "loop"
    /\ UNCHANGED <<uiVars, pipelineVars, impl, MOCK_OPTIONS_DATA, symbols, options, now, allOpportunities,
                   progressCalls, returned, fetchCount, analysed>>

\* api: the fetch promise rejects (transport failure)
FetchRejected ==
    /\ pc = "fetch"
    /\ Catch

\* api: the fetch settles with a response that is not ok: throw new Error(...)
FetchNotOk ==
    /\ pc = "fetch"
    /\ \E resp \in Responses(symbols[i + 1]) : ~resp.ok
    /\ Catch

\* api: the fetch settles with an ok response; await response.json()
FetchOk ==
    /\ pc = "fetch"
    /\ \E resp \in Responses(symbols[i + 1]) :
          /\ resp.ok
          /\ response' = resp
    /\ pc' = "json"
    /\ UNCHANGED <<uiVars, pipelineVars, impl, MOCK_OPTIONS_DATA, symbols, options, now, i, allOpportunities,
                   progressCalls, consoleErrors, returned, fetchCount, inFlight,
                   outcome, analysed>>

\* api: response.json() rejects (the body is not JSON)
JsonRejected ==
    /\ pc = "json"
    /\ ~response.isJson
    /\ Catch

\* api: results parsed; process results[0] if there is one, then await the pause
JsonParsed ==
    /\ pc = "json"
    /\ response.isJson
    /\ LET results == response.body
       IN  IF Len(results) > 0
           THEN LET symbolData == results[1]
                    symbolOptions == MapOptions(symbolData)
                    filteredOptions == SelectSeq(symbolOptions, FilterCriteria)
                IN  /\ allOpportunities' = allOpportunities \o filteredOptions
                    /\ analysed' = [analysed EXCEPT ![i + 1] = symbolOptions]
                    /\ outcome' = [outcome EXCEPT ![i + 1] = "resolved"]
           ELSE /\ outcome' = [outcome EXCEPT ![i + 1] = "unknown"]
                /\ UNCHANGED <<allOpportunities, analysed>>
    /\ inFlight' = inFlight \ {i + 1}
    /\ response' = NoResponse
    /\ pc' = "pause"
    /\ UNCHANGED <<uiVars, pipelineVars, impl, MOCK_OPTIONS_DATA, symbols, options, now, i, progressCalls,
                   consoleErrors, returned, fetchCount>>

\* api: the pause after a processed symbol is over; next iteration
PauseDone ==
    /\ pc = "pause"
    /\ i' = i + 1
    /\ pc' = "loop"
    /\ UNCHANGED <<uiVars, pipelineVars, impl, MOCK_OPTIONS_DATA, symbols, options, now, allOpportunities,
                   response, progressCalls, consoleErrors, returned, fetchCount,
                   inFlight, outcome, analysed>>

\* The label of the final progress update: '' in the mock service, 'Complete'
\* in the api service.
FinalLabel == IF impl = "mock" THEN "" ELSE "Complete"

\* After the loop: final progress update, sort in place, return
Finish ==
    /\ pc = "loop"
    /\ i >= Len(symbols)
    /\ progressCalls' = onProgress(Len(symbols), Len(symbols), FinalLabel)
    /\ allOpportunities' = SortByEdge(allOpportunities)
    /\ returned' = allOpportunities'
    /\ pc' = "done"
    /\ UNCHANGED <<uiVars, pipelineVars, impl, MOCK_OPTIONS_DATA, symbols, options, now, i, response,
                   consoleErrors, fetchCount, inFlight, outcome, analysed>>

\* The wall clock advances while the function is suspended in an await.
Tick ==
    /\ pc \in {"delay", "fetch", "json", "pause"}
    /\ now < HoursPerDay * MaxNow
    /\ now' = now + HoursPerDay
    /\ UNCHANGED <<uiVars, pipelineVars, impl, MOCK_OPTIONS_DATA, symbols, options, pc, i, allOpportunities,
                   response, progressCalls, consoleErrors, returned, fetchCount,
                   inFlight, outcome, analysed>>

Next ==
    \/ ReportProgress
    \/ StartDelay
    \/ MockLookup
    \/ StartFetch
    \/ FetchRejected
    \/ FetchNotOk
    \/ FetchOk
    \/ JsonRejected
    \/ JsonParsed
    \/ PauseDone
    \/ Finish
    \/ Tick

Spec == Init /\ [][Next]_vars

TypeOK ==
    /\ impl \in {"mock", "api"}
    /\ pc \in {"loop", "request", "delay", "fetch", "json", "pause", "done", "raised"}
    /\ i \in 0..Len(symbols)
    /\ now \in 0..(HoursPerDay * MaxNow)

(***************************************************************************)
(* The search called with some of its filters left out of the options.     *)
(***************************************************************************)
\* The options objects with at least one of minEdge, minVolume and minPrice
\* left out.
PartialSearchArguments ==
    {[name \in given \cup {"hasOnProgress"} |-> a[name]] :
        a \in SearchArguments,
        given \in (SUBSET {"minEdge", "minVolume", "minPrice"})
                    \ {{"minEdge", "minVolume", "minPrice"}}}

\* The market with the longest chain of every symbol.
FullMarket ==
    [sym \in KnownSymbols |->
        [symbol |-> sym, price |-> SpotPrice(sym),
         options |-> SubSeq(ContractPool(sym), 1, MaxContracts)]]

PartialInit ==
    /\ impl \in {"mock", "api"}
    /\ MOCK_OPTIONS_DATA = FullMarket
    /\ symbols \in SymbolLists
    /\ options \in PartialSearchArguments
    /\ now = 0
    /\ pc = "loop"
    /\ i = 0
    /\ allOpportunities = << >>
    /\ response = NoResponse
    /\ progressCalls = << >>
    /\ consoleErrors = << >>
    /\ returned = << >>
    /\ fetchCount = [k \in Positions |-> 0]
    /\ inFlight = {}
    /\ outcome = [k \in Positions |-> "pending"]
    /\ analysed = [k \in Positions |-> << >>]
    /\ probe = NoProbe
    /\ evaluations = << >>
    /\ engineCalls = << >>
    /\ applied = << >>
    /\ InitialRender

PartialSpec == PartialInit /\ [][Next]_vars

(***************************************************************************)
(* processOptionData and the functions of utils/blackScholes run on their  *)
(* own, outside a search: one contract, one spot price, one clock reading. *)
(***************************************************************************)
\* A contract whose implied volatility is 0: nothing in the market-data
\* collaborator or in the service keeps such a contract out.
InvalidContracts ==
    {Contract("AAPL_C180Z", 18000, 1, "call", 840, 820, 870, 1, 5420, 0)}

\* Contracts with a one-sided quote, and one whose spread is 10% of its mid.
QuoteContracts ==
    {Contract("AAPL_C180B", 18000, 1, "call", 840, 0, 870, 1, 5420, 28),
     Contract("AAPL_C180A", 18000, 1, "call", 840, 820, 0, 1, 5420, 28),
     Contract("AAPL_C180W", 18000, 1, "call", 840, 798, 882, 1, 5420, 28)}

\* The arguments processOptionData is run on: a contract of a chain or one of
\* the quotes above with the spot price of its underlying or a spot price equal
\* to its strike, or an invalid contract with the spot price of its underlying.
Probes ==
    LET contracts ==
          {<<sym, ContractPool(sym)[k]>> :
              sym \in KnownSymbols, k \in 1..Len(ContractPool("AAPL"))}
          \cup {<<"AAPL", c>> : c \in InvalidContracts \cup QuoteContracts}
    IN  UNION {{[rawOption |-> sc[2], stockPrice |-> S, ticker |-> sc[1]] :
                   S \in {SpotPrice(sc[1])}
                          \cup (IF sc[2] \in InvalidContracts THEN {}
                                ELSE {sc[2].strike})} : sc \in contracts}

\* Times to expiration, in years: a day past expiry, at expiry, a day before.
ProbeTimes == {Rat(-4, 1461), RatInt(0), Rat(4, 1461)}

\* Market and theoretical prices, in cents.
ProbePrices == {0, 8, 10, 800, 840}

PipelineInit ==
    /\ impl \in {"mock", "api"}
    /\ MOCK_OPTIONS_DATA = << >>
    /\ symbols = << >>
    /\ options = [hasOnProgress |-> FALSE, minEdge |-> 5, minVolume |-> 1, minPrice |-> 10]
    /\ now \in {HoursPerDay * day : day \in 0..MaxNow}
    /\ pc = "idle"
    /\ i = 0
    /\ allOpportunities = << >>
    /\ response = NoResponse
    /\ progressCalls = << >>
    /\ consoleErrors = << >>
    /\ returned = << >>
    /\ fetchCount = << >>
    /\ inFlight = {}
    /\ outcome = << >>
    /\ analysed = << >>
    /\ probe \in Probes
    /\ evaluations = << >>
    /\ engineCalls = << >>
    /\ applied = << >>
    /\ InitialRender

searchVars == <<impl, MOCK_OPTIONS_DATA, symbols, options, now, pc, i, allOpportunities,
                response, progressCalls, consoleErrors, returned, fetchCount, inFlight,
                outcome, analysed>>

\* One run of processOptionData(rawOption, stockPrice, ticker): it reads the
\* clock, calls blackScholes and calculateGreeks, draws Math.random() (api) and
\* returns the record.
Analyze ==
    /\ pc = "idle"
    /\ applied = << >>
    /\ Len(evaluations) < MaxEvaluations
    /\ \E random \in MathRandom :
          evaluations' = Append(evaluations,
                                processOptionData(probe.rawOption, probe.stockPrice,
                                                  probe.ticker)
                                @@ DataQuality(random))
    /\ LET T == calculateTimeToExpiration(probe.rawOption.expiration)
           arguments == [S |-> probe.stockPrice, K |-> probe.rawOption.strike, T |-> T,
                         sigma |-> probe.rawOption.impliedVolatility]
       IN  engineCalls' = engineCalls \o <<[engine |-> "blackScholes"] @@ arguments,
                                           [engine |-> "calculateGreeks"] @@ arguments>>
    /\ UNCHANGED <<uiVars, searchVars, probe, applied>>

\* blackScholes(S, K, T, r, sigma) applied to the probe's prices and volatility
ApplyBlackScholes ==
    /\ pc = "idle"
    /\ applied = << >>
    /\ evaluations = << >>
    /\ \E T \in ProbeTimes :
          applied' = <<[fn |-> "blackScholes",
                        S |-> probe.stockPrice, K |-> probe.rawOption.strike, T |-> T,
                        sigma |-> probe.rawOption.impliedVolatility,
                        result |-> blackScholes(probe.stockPrice, probe.rawOption.strike,
                                                T, RISK_FREE_RATE,
                                                probe.rawOption.impliedVolatility)]>>
    /\ UNCHANGED <<uiVars, searchVars, probe, evaluations, engineCalls>>

\* calculateGreeks(S, K, T, r, sigma, optionType) applied likewise
ApplyCalculateGreeks ==
    /\ pc = "idle"
    /\ applied = << >>
    /\ evaluations = << >>
    /\ \E T \in ProbeTimes, optionType \in {"call", "put"} :
          applied' = <<[fn |-> "calculateGreeks",
                        S |-> probe.stockPrice, K |-> probe.rawOption.strike, T |-> T,
                        sigma |-> probe.rawOption.impliedVolatility,
                        optionType |-> optionType,
                        result |-> calculateGreeks(probe.stockPrice,
                                                   probe.rawOption.strike, T,
                                                   RISK_FREE_RATE,
                                                   probe.rawOption.impliedVolatility,
                                                   optionType)]>>
    /\ UNCHANGED <<uiVars, searchVars, probe, evaluations, engineCalls>>

\* calculateEdge(marketPrice, theoreticalPrice)
ApplyCalculateEdge ==
    /\ pc = "idle"
    /\ applied = << >>
    /\ evaluations = << >>
    /\ \E marketPrice \in ProbePrices, theoreticalPrice \in ProbePrices :
          applied' = <<[fn |-> "calculateEdge",
                        marketPrice |-> marketPrice,
                        theoreticalPrice |-> theoreticalPrice,
                        result |-> calculateEdge(marketPrice, theoreticalPrice)]>>
    /\ UNCHANGED <<uiVars, searchVars, probe, evaluations, engineCalls>>

\* calculateSpreadPercent(bid, ask)
ApplyCalculateSpreadPercent ==
    /\ pc = "idle"
    /\ applied = << >>
    /\ evaluations = << >>
    /\ \E bid \in ProbePrices, ask \in ProbePrices :
          applied' = <<[fn |-> "calculateSpreadPercent",
                        bid |-> bid,
                        ask |-> ask,
                        result |-> calculateSpreadPercent(bid, ask)]>>
    /\ UNCHANGED <<uiVars, searchVars, probe, evaluations, engineCalls>>

PipelineNext ==
    \/ Analyze
    \/ ApplyBlackScholes
    \/ ApplyCalculateGreeks
    \/ ApplyCalculateEdge
    \/ ApplyCalculateSpreadPercent

PipelineSpec == PipelineInit /\ [][PipelineNext]_vars

(***************************************************************************)
(* calculateTimeToExpiration read against a clock that advances by hours.  *)
(***************************************************************************)
\* The expiration dates of the chains: day 1 stands for a summer date, as
\* the '2025-08-16' of every contract of MOCK_OPTIONS_DATA, day 2 for a
\* winter one.
ExpirationDates == {1, 2}

\* The dates on which America/New_York keeps daylight time (UTC-4).
DaylightDates == {1}

\* 16:00 America/New_York of the date ("4 PM ET"), in hours of the clock:
\* 20:00 UTC on a daylight date, 21:00 UTC on a standard one.
NewYorkClose(expirationDate) ==
    IF expirationDate \in DaylightDates
    THEN HoursPerDay * expirationDate - 1
    ELSE HoursPerDay * expirationDate

ClockInit ==
    /\ PipelineInit
    /\ now = 0
    /\ probe = [rawOption |-> ContractPool("AAPL")[1], stockPrice |-> SpotPrice("AAPL"),
                ticker |-> "AAPL"]

\* An hour passes between two readings of the clock.
HourPasses ==
    /\ pc = "idle"
    /\ evaluations = << >>
    /\ now < HoursPerDay * MaxNow
    /\ now' = now + 1
    /\ UNCHANGED <<impl, MOCK_OPTIONS_DATA, symbols, options, pc, i, allOpportunities,
                   response, progressCalls, consoleErrors, returned, fetchCount,
                   inFlight, outcome, analysed, pipelineVars, uiVars>>

\* calculateTimeToExpiration(expirationDate) at the current reading of the clock
ApplyCalculateTimeToExpiration ==
    /\ pc = "idle"
    /\ evaluations = << >>
    /\ Len(applied) < MaxEvaluations
    /\ \E expirationDate \in ExpirationDates :
          applied' = Append(applied,
                            [fn |-> "calculateTimeToExpiration",
                             expirationDate |-> expirationDate,
                             at |-> now,
                             result |-> calculateTimeToExpiration(expirationDate)])
    /\ UNCHANGED <<uiVars, searchVars, probe, evaluations, engineCalls>>

ClockNext ==
    \/ HourPasses
    \/ ApplyCalculateTimeToExpiration

ClockSpec == ClockInit /\ [][ClockNext]_vars

(***************************************************************************)
(* parseSymbols and formatSymbolsForDisplay.  A string is the sequence of  *)
(* its characters.                                                         *)
(***************************************************************************)
Characters == {"a", "A", "1", ",", " "}

\* \s of the regular expressions, and what String.prototype.trim removes
IsWhitespace(c) == c = " "

\* the class [,\s]
IsSeparator(c) == c = "," \/ IsWhitespace(c)

\* String.prototype.toUpperCase, character by character
ToUpperCase(str) == [k \in 1..Len(str) |-> IF str[k] = "a" THEN "A" ELSE str[k]]

RECURSIVE TrimStart(_)
TrimStart(str) ==
    IF str # << >> /\ IsWhitespace(Head(str)) THEN TrimStart(Tail(str)) ELSE str

RECURSIVE TrimEnd(_)
TrimEnd(str) ==
    IF str # << >> /\ IsWhitespace(str[Len(str)])
    THEN TrimEnd(SubSeq(str, 1, Len(str) - 1))
    ELSE str

\* String.prototype.trim
Trim(str) == TrimEnd(TrimStart(str))

\* input.split(/[,\s]+/), scanning from character k with the piece cur begun:
\* a run of separators closes the piece, and the end of the string closes the
\* last one, so that a string that starts or ends with a separator gives an
\* empty first or last piece.
RECURSIVE SplitFrom(_, _, _, _)
SplitFrom(str, k, cur, pieces) ==
    IF k > Len(str) THEN Append(pieces, cur)
    ELSE IF IsSeparator(str[k])
         THEN IF k < Len(str) /\ IsSeparator(str[k + 1])
              THEN SplitFrom(str, k + 1, cur, pieces)
              ELSE SplitFrom(str, k + 1, << >>, Append(pieces, cur))
         ELSE SplitFrom(str, k + 1, Append(cur, str[k]), pieces)

Split(str) == SplitFrom(str, 1, << >>, << >>)

\* /^[A-Z]{1,5}$/.test(symbol)
MatchesSymbolPattern(symbol) ==
    /\ Len(symbol) \in 1..5
    /\ \A k \in 1..Len(symbol) : symbol[k] = "A"

\* [...new Set(symbols)]: the first occurrence of each element, in order
RECURSIVE Distinct(_, _)
Distinct(list, seen) ==
    IF list = << >> THEN seen
    ELSE IF \E k \in 1..Len(seen) : seen[k] = Head(list)
         THEN Distinct(Tail(list), seen)
         ELSE Distinct(Tail(list), Append(seen, Head(list)))

\* Variant of parseSymbols: the filtered list is returned as it is, not
\* through a Set.
parseSymbols_KeepDuplicates(input) ==
    IF Trim(input) = << >> THEN << >>
    ELSE LET pieces == Split(input)
             upper == [k \in 1..Len(pieces) |-> ToUpperCase(Trim(pieces[k]))]
         IN  SelectSeq(upper, LAMBDA symbol : Len(symbol) > 0 /\ MatchesSymbolPattern(symbol))

parseSymbols(input) ==
    IF Trim(input) = << >> THEN << >>
    ELSE LET pieces == Split(input)
             upper == [k \in 1..Len(pieces) |-> ToUpperCase(Trim(pieces[k]))]
             symbolList == SelectSeq(upper, LAMBDA symbol :
                                        Len(symbol) > 0 /\ MatchesSymbolPattern(symbol))
         IN  Distinct(symbolList, << >>)

\* symbols.join(', ')
RECURSIVE formatSymbolsForDisplay(_)
formatSymbolsForDisplay(symbolList) ==
    IF symbolList = << >> THEN << >>
    ELSE IF Len(symbolList) = 1 THEN Head(symbolList)
    ELSE Head(symbolList) \o <<",", " ">> \o formatSymbolsForDisplay(Tail(symbolList))

\* The strings of at most MaxInput characters.
Inputs == UNION {[1..n -> Characters] : n \in 0..MaxInput}

ParseInit ==
    /\ ClockInit
    /\ impl = "mock"

\* parseSymbols(input), and parseSymbols again on the formatted result
ApplyParseSymbols ==
    /\ pc = "idle"
    /\ applied = << >>
    /\ evaluations = << >>
    /\ \E input \in Inputs :
          LET result == parseSymbols(input)
          IN  applied' = <<[fn |-> "parseSymbols",
                            input |-> input,
                            result |-> result,
                            formatted |-> formatSymbolsForDisplay(result),
                            reparsed |-> parseSymbols(formatSymbolsForDisplay(result))]>>
    /\ UNCHANGED <<uiVars, searchVars, probe, evaluations, engineCalls>>

ParseNext == ApplyParseSymbols

ParseSpec == ParseInit /\ [][ParseNext]_vars

(***************************************************************************)
(* The page: OptionsAnalytics with its SearchBar.  A user event is enabled *)
(* when the element it is fired at is rendered and not disabled; its       *)
(* action is the handler, run to its end or to its first await, with the   *)
(* state updates it queues.  searchOptionsData is seen from the page as    *)
(* its calls of onProgress followed by the settling of its promise.        *)
(***************************************************************************)
\* searchHistory keeps .slice(0, 5)
HistoryLimit == 5

\* The quick-search buttons: single tickers and the bundle.
QuickSearches == {<<"A">>, <<"A", "A">>, <<"A", ",", " ", "A", "A">>}

\* What the user types into the input.
TypedQueries ==
    {<< >>, <<" ">>, <<"1">>, <<"a">>, <<" ", "A">>, <<"A", " ", "A">>, <<"A", "A", "A">>}

\* The label of the closing onProgress call: '' or 'Complete'.
ClosingLabel ==
    IF impl = "mock" THEN << >> ELSE <<"C", "o", "m", "p", "l", "e", "t", "e">>

\* seq.slice(0, n)
Slice(seq, n) == SubSeq(seq, 1, IF Len(seq) < n THEN Len(seq) ELSE n)

\* Variant of the searchHistory updater: the query is put in front of the
\* list as it is.
UpdatedHistory_NoFilter(prev, q) == Slice(<<q>> \o prev, HistoryLimit)

\* prev => [query, ...prev.filter(item => item !== query)].slice(0, 5)
UpdatedHistory(prev, q) ==
    Slice(<<q>> \o SelectSeq(prev, LAMBDA item : item # q), HistoryLimit)

\* Variant of the onProgress callback: the share of the symbols still to do.
ProgressUpdate_Remaining(prev, current, total, symbol) ==
    [prev EXCEPT !.progress = IF total = 0 THEN NaN ELSE Rat((total - current) * 100, total),
                 !.currentSymbol = symbol]

\* The onProgress callback of handleSearch:
\* prev => ({...prev, progress: (current / total) * 100, currentSymbol: symbol})
ProgressUpdate(prev, current, total, symbol) ==
    [prev EXCEPT !.progress = IF total = 0 THEN NaN ELSE Rat(current * 100, total),
                 !.currentSymbol = symbol]

\* handleSearch(q) up to its await: the history and the loading state are
\* set, searchOptionsData is called and makes its first onProgress call, for
\* the first symbol, or its closing one when there is no symbol.
handleSearch(q) ==
    IF Trim(q) = << >>
    THEN UNCHANGED <<searchResults, searchHistory, searches>>
    ELSE LET symbolList == parseSymbols(q)
             total == Len(symbolList)
             loading == [opportunities |-> << >>, isLoading |-> TRUE,
                         currentSymbol |-> << >>, progress |-> RatInt(0),
                         error |-> NoError]
         IN  /\ searchHistory' = UpdatedHistory(searchHistory, q)
             /\ searchResults' =
                   ProgressUpdate(loading, 0, total,
                                  IF total = 0 THEN ClosingLabel ELSE symbolList[1])
             /\ searches' = Append(searches,
                                   [query |-> q, symbols |-> symbolList, current |-> 1])

\* SearchBar.handleHistoryClick(historyItem)
handleHistoryClick(historyItem) ==
    /\ query' = historyItem
    /\ showHistory' = FALSE
    /\ handleSearch(historyItem)

isValidInput == Len(parseSymbols(query)) > 0

\* The input, disabled while loading, takes a new text.
handleInputChange ==
    /\ pc = "idle"
    /\ ~searchResults.isLoading
    /\ \E text \in TypedQueries : query' = text
    /\ UNCHANGED <<searchResults, searchHistory, connectionStatus, showHistory, searches,
                   lastSettled, searchVars, pipelineVars>>

\* The input, disabled while loading, takes the focus.
handleInputFocus ==
    /\ pc = "idle"
    /\ ~searchResults.isLoading
    /\ showHistory' = IF Len(searchHistory) > 0 THEN TRUE ELSE showHistory
    /\ UNCHANGED <<searchResults, searchHistory, connectionStatus, query, searches,
                   lastSettled, searchVars, pipelineVars>>

\* The timer of handleInputBlur fires.
HideHistory ==
    /\ pc = "idle"
    /\ showHistory
    /\ showHistory' = FALSE
    /\ UNCHANGED <<searchResults, searchHistory, connectionStatus, query, searches,
                   lastSettled, searchVars, pipelineVars>>

\* The form is submitted, by its button or by Enter in the input: the button is
\* disabled without a valid input and while loading, and a form whose submit
\* button is disabled is not submitted.
handleSubmit ==
    /\ pc = "idle"
    /\ isValidInput /\ ~searchResults.isLoading
    /\ Len(searches) < MaxSearches
    /\ IF Trim(query) # << >> /\ ~searchResults.isLoading
       THEN /\ handleSearch(Trim(query))
            /\ showHistory' = FALSE
       ELSE UNCHANGED <<searchResults, searchHistory, searches, showHistory>>
    /\ UNCHANGED <<connectionStatus, query, lastSettled, searchVars, pipelineVars>>

\* An item of the open history dropdown is clicked.
HistoryItem ==
    /\ pc = "idle"
    /\ showHistory /\ Len(searchHistory) > 0
    /\ Len(searches) < MaxSearches
    /\ \E k \in 1..Len(searchHistory) : handleHistoryClick(searchHistory[k])
    /\ UNCHANGED <<connectionStatus, lastSettled, searchVars, pipelineVars>>

\* Variant of the quick-search buttons: without disabled={isLoading}.
QuickSearch_NeverDisabled ==
    /\ pc = "idle"
    /\ Len(searches) < MaxSearches
    /\ \E text \in QuickSearches : handleHistoryClick(text)
    /\ UNCHANGED <<connectionStatus, lastSettled, searchVars, pipelineVars>>

\* A quick-search button, disabled while loading, is clicked.
QuickSearch ==
    /\ pc = "idle"
    /\ ~searchResults.isLoading
    /\ Len(searches) < MaxSearches
    /\ \E text \in QuickSearches : handleHistoryClick(text)
    /\ UNCHANGED <<connectionStatus, lastSettled, searchVars, pipelineVars>>

\* A pending searchOptionsData resumes and makes its next onProgress call:
\* for its next symbol, or the closing one after the last symbol.
SearchProgress ==
    /\ pc = "idle"
    /\ \E k \in 1..Len(searches) :
          LET call == searches[k]
              total == Len(call.symbols)
          IN  /\ total > 0
              /\ call.current <= total
              /\ searchResults' =
                    ProgressUpdate(searchResults, call.current, total,
                                   IF call.current < total
                                   THEN call.symbols[call.current + 1]
                                   ELSE ClosingLabel)
              /\ searches' = [searches EXCEPT ![k].current = call.current + 1]
    /\ UNCHANGED <<searchHistory, connectionStatus, query, showHistory, lastSettled,
                   searchVars, pipelineVars>>

\* How the promise of searchOptionsData settles: the function catches what the
\* collaborator throws, so the promise is always fulfilled.
Settlements == {"fulfilled"}

\* The records a search of the symbols may return, one per symbol at most.
SearchOutputs(symbolList) ==
    {[k \in 1..n |-> [ticker |-> symbolList[k]]] : n \in 0..Len(symbolList)}

\* A searchOptionsData that has made its closing onProgress call settles and
\* handleSearch resumes after its await, in the try block or in the catch.
SearchSettles ==
    /\ pc = "idle"
    /\ \E k \in 1..Len(searches) :
          LET call == searches[k]
          IN  /\ call.current > Len(call.symbols)
              /\ searches' = SubSeq(searches, 1, k - 1)
                                \o SubSeq(searches, k + 1, Len(searches))
              /\ \E settlement \in Settlements, results \in SearchOutputs(call.symbols) :
                    IF settlement = "fulfilled"
                    THEN /\ searchResults' = [opportunities |-> results,
                                              isLoading |-> FALSE,
                                              currentSymbol |-> << >>,
                                              progress |-> RatInt(100),
                                              error |-> NoError]
                         /\ connectionStatus' = "connected"
                         /\ lastSettled' = [outcome |-> "fulfilled", results |-> results]
                    ELSE /\ searchResults' = [searchResults EXCEPT
                                                 !.isLoading = FALSE,
                                                 !.error = "Search failed"]
                         /\ connectionStatus' = "error"
                         /\ lastSettled' = [outcome |-> "rejected", results |-> << >>]
    /\ UNCHANGED <<searchHistory, query, showHistory, searchVars, pipelineVars>>

PageInit == ClockInit

PageNext ==
    \/ handleInputChange
    \/ handleInputFocus
    \/ HideHistory
    \/ handleSubmit
    \/ HistoryItem
    \/ QuickSearch
    \/ SearchProgress
    \/ SearchSettles

PageSpec == PageInit /\ [][PageNext]_vars

\* The timers searchOptionsData waits on fire and its requests settle, so a
\* pending call goes on to its next onProgress call and then settles.
PageLiveSpec ==
    PageSpec /\ WF_vars(SearchProgress) /\ WF_vars(SearchSettles)

(***************************************************************************)
(* Helpers of the properties                                               *)
(***************************************************************************)
Range(seq) == {seq[k] : k \in 1..Len(seq)}

RECURSIVE Flatten(_)
Flatten(seqs) ==
    IF seqs = << >> THEN << >> ELSE Head(seqs) \o Flatten(Tail(seqs))

\* The three filter tests as the specification words them, all inclusive.
MeetsCriteria(r) ==
    /\ r.edge.num >= options.minEdge * r.edge.den
    /\ r.volume >= options.minVolume
    /\ r.lastPrice >= options.minPrice

\* The records kept for position k, in contract order.
KeptOf(k) == SelectSeq(analysed[k], MeetsCriteria)

\* All kept records in arrival order: symbol input order, then contract order.
Accumulated == Flatten([k \in Positions |-> KeptOf(k)])

Processed(k) == outcome[k] # "pending"

(***************************************************************************)
(* C1: with a progress callback, one search makes exactly N+1 onProgress   *)
(* calls, whose first arguments are 0, 1, ..., N in this order and whose   *)
(* second argument is always N, whatever the symbols resolve to.           *)
(***************************************************************************)
C1_ProgressIndices ==
    options.hasOnProgress =>
        /\ Len(progressCalls) <= Len(symbols) + 1
        /\ \A k \in 1..Len(progressCalls) :
              /\ progressCalls[k][1] = k - 1
              /\ progressCalls[k][2] = Len(symbols)
        /\ pc = "done" => Len(progressCalls) = Len(symbols) + 1
        /\ pc # "done" => Len(progressCalls) <= Len(symbols)

C1_Witness ==
    /\ pc = "done"
    /\ Len(symbols) = 3
    /\ {outcome[k] : k \in Positions} = {"resolved", "unknown", "failed"}
    /\ Len(progressCalls) = 4

(***************************************************************************)
(* C2 as claimed: whenever an onProgress call labelled with the symbol at  *)
(* position k has been made, that symbol has already been processed (its   *)
(* fetch has completed and its kept contracts are in the buffer).          *)
(***************************************************************************)
C2_LabelAfterProcessing ==
    \A k \in 1..Len(progressCalls) :
        (k <= Len(symbols) /\ progressCalls[k][3] = symbols[k]) => Processed(k)

(***************************************************************************)
(* C2 amended: the onProgress call labelled with the symbol at position k  *)
(* is made before that symbol is processed: when the callback runs, the    *)
(* fetch for position k has not been started, every earlier position has   *)
(* been fetched once and processed, and the buffer holds exactly the kept  *)
(* contracts of the earlier positions.                                     *)
(***************************************************************************)
C2_LabelBeforeProcessing ==
    [][(Len(progressCalls') = Len(progressCalls) + 1 /\ Len(progressCalls) < Len(symbols)) =>
          LET k == Len(progressCalls) + 1
          IN  /\ progressCalls'[k][3] = symbols[k]
              /\ fetchCount[k] = 0
              /\ ~Processed(k)
              /\ \A j \in 1..(k - 1) : Processed(j) /\ fetchCount[j] = 1
              /\ allOpportunities = Flatten([j \in 1..(k - 1) |-> KeptOf(j)])
              /\ fetchCount' = fetchCount /\ outcome' = outcome
              /\ allOpportunities' = allOpportunities]_vars

C2_Witness ==
    /\ pc = "request"
    /\ i = 1
    /\ Len(progressCalls) = 2
    /\ progressCalls[2][3] = symbols[2]
    /\ outcome[1] = "resolved"
    /\ outcome[2] = "pending"
    /\ allOpportunities # << >>

(***************************************************************************)
(* C3 as claimed: when search has returned, its last onProgress call is    *)
(* (N, N, "") with the empty string as label, it is the only call with     *)
(* first argument N, and it was made after every symbol was processed.     *)
(***************************************************************************)
C3_FinalProgressEmptyLabel ==
    (pc = "done" /\ options.hasOnProgress) =>
        /\ Len(progressCalls) >= 1
        /\ progressCalls[Len(progressCalls)] = <<Len(symbols), Len(symbols), "">>
        /\ Cardinality({k \in 1..Len(progressCalls) :
                            progressCalls[k][1] = Len(symbols)}) = 1
        /\ \A k \in Positions : Processed(k)

(***************************************************************************)
(* C4: the returned sequence holds a record analysed for a resolved symbol *)
(* if and only if its edge >= minEdge, its volume >= minVolume and its     *)
(* lastPrice >= minPrice (all inclusive), holds nothing else, and holds    *)
(* each kept record as many times as it was kept.                          *)
(***************************************************************************)
C4_FilterInclusive ==
    pc = "done" =>
        /\ \A k \in Positions : \A r \in Range(analysed[k]) :
              (r \in Range(returned)) <=> MeetsCriteria(r)
        /\ \A r \in Range(returned) :
              \E k \in Positions : outcome[k] = "resolved" /\ r \in Range(analysed[k])
        /\ Len(returned) = Len(Accumulated)

C4_Witness ==
    /\ pc = "done"
    /\ \E r \in Range(returned) :
          /\ r.edge = RatInt(options.minEdge)
          /\ r.volume = options.minVolume
    /\ \E r \in Range(returned) : r.lastPrice = options.minPrice
    /\ \E k \in Positions : \E r \in Range(analysed[k]) :
          /\ r.edge.num < options.minEdge * r.edge.den
          /\ r.volume >= options.minVolume
          /\ r.lastPrice >= options.minPrice
          /\ r \notin Range(returned)

(***************************************************************************)
(* C5: the returned sequence is in descending order of edge, and the       *)
(* records of any one edge value appear in the order they were             *)
(* accumulated: symbol input order first, then contract order.             *)
(***************************************************************************)
C5_SortedStable ==
    pc = "done" =>
        /\ \A k \in 1..(Len(returned) - 1) :
              returned[k].edge.num * returned[k + 1].edge.den
                  >= returned[k + 1].edge.num * returned[k].edge.den
        /\ \A e \in {r.edge : r \in Range(returned) \cup Range(Accumulated)} :
              LET HasEdge(r) == r.edge = e
              IN  SelectSeq(returned, HasEdge) = SelectSeq(Accumulated, HasEdge)

C5_Witness ==
    /\ pc = "done"
    /\ returned # Accumulated
    /\ \E k \in 1..(Len(returned) - 1) :
          /\ returned[k].edge = returned[k + 1].edge
          /\ returned[k].ticker = returned[k + 1].ticker
          /\ returned[k] # returned[k + 1]
    /\ \E k \in 1..(Len(returned) - 1) :
          /\ returned[k].edge = returned[k + 1].edge
          /\ returned[k].ticker # returned[k + 1].ticker

\* The iteration of the next symbol can start.
NextSymbolCanStart == ENABLED ReportProgress

\* The search can make its final progress update, sort and return.
SearchCanReturn == ENABLED Finish

IsKnown(symbol) == symbol \in DOMAIN MOCK_OPTIONS_DATA

(***************************************************************************)
(* C6: a symbol the collaborator has no data for is skipped without an     *)
(* error: the search is never rejected, nothing is analysed or returned    *)
(* for that symbol, its progress call was made, once it is skipped the     *)
(* iteration of the next symbol can start, and when the search returns     *)
(* every symbol after it has been fetched once and processed.              *)
(***************************************************************************)
C6_UnknownSkipped ==
    /\ pc # "raised"
    /\ \A k \in Positions : (~IsKnown(symbols[k]) /\ Processed(k)) =>
          /\ outcome[k] \in {"unknown", "failed"}
          /\ analysed[k] = << >>
          /\ \A r \in Range(allOpportunities) : symbols[k] \notin {r.symbol, r.ticker}
          /\ progressCalls[k] = <<k - 1, Len(symbols), symbols[k]>>
          /\ (pc = "loop" /\ i = k /\ k < Len(symbols)) => NextSymbolCanStart
          /\ pc = "done" => \A j \in (k + 1)..Len(symbols) :
                                Processed(j) /\ fetchCount[j] = 1

C6_Witness ==
    /\ pc = "done"
    /\ Len(symbols) = 3
    /\ ~IsKnown(symbols[1])
    /\ outcome[1] = "unknown"
    /\ outcome[2] = "resolved"
    /\ outcome[3] = "resolved"
    /\ returned # << >>

(***************************************************************************)
(* C7: a failure of the collaborator on one symbol does not abort the      *)
(* search: the search is never rejected, no symbol is fetched twice, once  *)
(* the failure is handled the iteration of the next symbol can start, and  *)
(* when the search returns every symbol after the failing one has been     *)
(* fetched exactly once and processed.                                     *)
(***************************************************************************)
C7_FailureDoesNotAbort ==
    /\ pc # "raised"
    /\ \A k \in Positions : fetchCount[k] <= 1
    /\ \A k \in Positions : outcome[k] = "failed" =>
          /\ (pc = "loop" /\ i = k /\ k < Len(symbols)) => NextSymbolCanStart
          /\ pc = "done" => \A j \in (k + 1)..Len(symbols) :
                                Processed(j) /\ fetchCount[j] = 1

C7_Witness ==
    /\ pc = "done"
    /\ Len(symbols) = 3
    /\ outcome[1] = "failed"
    /\ IsKnown(symbols[1])
    /\ outcome[2] = "unknown"
    /\ outcome[3] = "resolved"
    /\ fetchCount[2] = 1 /\ fetchCount[3] = 1
    /\ returned # << >>

(***************************************************************************)
(* C8: what search returns is what the same search returns on the list     *)
(* without the failing and unknown symbols: the surviving symbols'         *)
(* records, filtered, accumulated in input order and sorted, equal in      *)
(* content and in order (each contract analysed at the same clock reading).*)
(***************************************************************************)
SurvivingPositions ==
    LET IsResolved(k) == outcome[k] = "resolved"
    IN  SelectSeq([k \in Positions |-> k], IsResolved)

RECURSIVE ReferenceBuffer(_)
ReferenceBuffer(positions) ==
    IF positions = << >> THEN << >>
    ELSE SelectSeq(analysed[Head(positions)], FilterCriteria)
         \o ReferenceBuffer(Tail(positions))

C8_FailureIsolation ==
    pc = "done" => returned = SortByEdge(ReferenceBuffer(SurvivingPositions))

C8_Witness ==
    /\ pc = "done"
    /\ Len(symbols) = 3
    /\ outcome[1] = "resolved"
    /\ outcome[2] = "failed"
    /\ outcome[3] = "resolved"
    /\ symbols[1] # symbols[3]
    /\ KeptOf(1) # << >>
    /\ KeptOf(3) # << >>
    /\ Len(returned) = Len(KeptOf(1)) + Len(KeptOf(3))

(***************************************************************************)
(* C9: search is never rejected, and when no record was kept (no symbol    *)
(* resolved, every fetch failed, or no contract passed the filters) the    *)
(* search can return once the loop is over, and it returns the empty       *)
(* sequence.                                                               *)
(***************************************************************************)
C9_EmptyIsNotAnError ==
    /\ pc # "raised"
    /\ (\A k \in Positions : KeptOf(k) = << >>) =>
          /\ (pc = "loop" /\ i = Len(symbols)) => SearchCanReturn
          /\ pc = "done" => returned = << >>

C9_Witness ==
    /\ pc = "done"
    /\ Len(symbols) = 3
    /\ {outcome[k] : k \in Positions} = {"resolved", "unknown", "failed"}
    /\ \E k \in Positions : analysed[k] # << >>
    /\ returned = << >>

(***************************************************************************)
(* C10: symbols are fetched one at a time in input order: at most one      *)
(* collaborator call is in flight, and a call for a position is started    *)
(* only when every earlier position has been fetched once, is no longer in *)
(* flight and has been processed, its kept records being in the buffer.    *)
(***************************************************************************)
C10_OneFetchAtATime ==
    /\ Cardinality(inFlight) <= 1
    /\ \A k \in Positions : fetchCount[k] > 0 =>
          \A j \in 1..(k - 1) : fetchCount[j] = 1 /\ Processed(j) /\ j \notin inFlight
    /\ \A k \in inFlight :
          /\ ~Processed(k)
          /\ allOpportunities = Flatten([j \in 1..(k - 1) |-> KeptOf(j)])

C10_Witness ==
    /\ pc = "fetch"
    /\ inFlight = {3}
    /\ outcome[1] = "resolved"
    /\ outcome[2] = "failed"
    /\ allOpportunities # << >>

C14_MaxProfitIsPremium ==
    \A k \in Positions : \A r \in Range(analysed[k]) :
        /\ IsFinite(r.maxProfit)
        /\ r.maxProfit = RatInt(r.lastPrice * 100)

(***************************************************************************)
(* C15 as claimed: every record the pipeline produces has                  *)
(* annualizedReturn = (maxProfit / collateralRequired) x                   *)
(* (365 / daysToExpiration) x 100 with daysToExpiration =                  *)
(* timeToExpiration x 365, and 0 when daysToExpiration <= 0.               *)
(***************************************************************************)
C15_AnnualizedReturnOfPremium ==
    \A k \in Positions : \A r \in Range(analysed[k]) :
        LET days == RatMul(r.timeToExpiration, RatInt(365))
        IN  IF days.num <= 0
            THEN r.annualizedReturn = RatInt(0)
            ELSE /\ IsFinite(r.maxProfit)
                 /\ r.annualizedReturn =
                        RatMul(RatMul(RatDiv(r.maxProfit, RatInt(r.collateralRequired)),
                                      RatInt(100)),
                               RatMul(RatInt(365), [num |-> days.den, den |-> days.num]))

(***************************************************************************)
(* C11 as claimed: a contract whose spot, strike or implied volatility is  *)
(* non-positive is rejected before the pricing or Greeks engine is         *)
(* invoked, and no record is produced for it.                              *)
(***************************************************************************)
C11_InvalidInputRejected ==
    (\/ probe.stockPrice <= 0
     \/ probe.rawOption.strike <= 0
     \/ probe.rawOption.impliedVolatility <= 0)
        => engineCalls = << >> /\ evaluations = << >>

(***************************************************************************)
(* C16: for T <= 0, blackScholes returns callPrice = max(S - K, 0) and     *)
(* putPrice = max(K - S, 0), d1 = d2 = 0, N(d1) = N(d2) = 1 if S > K and 0 *)
(* otherwise, and N(-d1) = N(-d2) = the complement, whatever the           *)
(* volatility: nothing of the closed form is in the result.                *)
(***************************************************************************)
C16_ExpiredIsIntrinsic ==
    \A a \in Range(applied) :
        (a.fn = "blackScholes" /\ a.T.num <= 0) =>
            /\ a.result.callPrice = (IF a.S - a.K > 0 THEN a.S - a.K ELSE 0)
            /\ a.result.putPrice = (IF a.K - a.S > 0 THEN a.K - a.S ELSE 0)
            /\ a.result.d1 = 0 /\ a.result.d2 = 0
            /\ a.result.nd1 = (IF a.S > a.K THEN 1000 ELSE 0)
            /\ a.result.nd2 = a.result.nd1
            /\ a.result.nMinusD1 = 1000 - a.result.nd1
            /\ a.result.nMinusD2 = 1000 - a.result.nd2

C16_Witness ==
    \E a \in Range(applied) :
        /\ a.fn = "blackScholes"
        /\ a.T.num = 0
        /\ a.S = a.K
        /\ a.result.callPrice = 0 /\ a.result.putPrice = 0

(***************************************************************************)
(* C17: for T <= 0, calculateGreeks returns delta = gamma = theta = vega = *)
(* rho = 0 for a call and for a put; and every record of an expired        *)
(* contract has the five Greeks and assignmentProbability equal to 0.      *)
(***************************************************************************)
C17_ExpiredGreeksZero ==
    /\ \A a \in Range(applied) :
          (a.fn = "calculateGreeks" /\ a.T.num <= 0) =>
              a.result = [delta |-> 0, gamma |-> 0, theta |-> 0, vega |-> 0, rho |-> 0]
    /\ \A r \in Range(evaluations) :
          r.timeToExpiration.num <= 0 =>
              /\ r.delta = 0 /\ r.gamma = 0 /\ r.theta = 0 /\ r.vega = 0 /\ r.rho = 0
              /\ r.assignmentProbability = RatInt(0)

C17_Witness ==
    \E a \in Range(applied) :
        /\ a.fn = "calculateGreeks"
        /\ a.T.num = 0
        /\ a.optionType = "put"
        /\ a.S > a.K
        /\ a.result.delta = 0

C19_Deterministic ==
    \A j, k \in 1..Len(evaluations) : evaluations[j] = evaluations[k]

(***************************************************************************)
(* C12 as claimed: a filter the caller leaves out takes its default,       *)
(* minEdge = 5, minVolume = 1, minPrice = 0.10: the search returns the     *)
(* records of the resolved symbols that pass the given bounds and the      *)
(* defaults of the missing ones, sorted.                                   *)
(***************************************************************************)
C12_DefaultsApplied ==
    LET minEdge == IF IsGiven("minEdge") THEN options.minEdge ELSE 5
        minVolume == IF IsGiven("minVolume") THEN options.minVolume ELSE 1
        minPrice == IF IsGiven("minPrice") THEN options.minPrice ELSE 10
        Passes(r) == /\ r.edge.num >= minEdge * r.edge.den
                     /\ r.volume >= minVolume
                     /\ r.lastPrice >= minPrice
    IN  pc = "done" =>
            returned = SortByEdge(Flatten([k \in Positions |->
                                              SelectSeq(analysed[k], Passes)]))

(***************************************************************************)
(* C23 as claimed: time-to-expiration is the time from now to 16:00        *)
(* America/New_York of the expiration date, in years of 365.25 days,       *)
(* clamped at 0: it is never negative, it is 0 at every reading of the     *)
(* clock at or after that instant, and between two readings for the same   *)
(* date it never increases.                                                *)
(***************************************************************************)
C23_TimeToNewYorkClose ==
    /\ \A a \in Range(applied) :
          a.fn = "calculateTimeToExpiration" =>
              LET close == NewYorkClose(a.expirationDate)
              IN  /\ RatGeq(a.result, RatInt(0))
                  /\ a.at >= close => a.result = RatInt(0)
                  /\ a.at < close =>
                        a.result = Rat(4 * (close - a.at), 1461 * HoursPerDay)
    /\ \A j, k \in 1..Len(applied) :
          /\ j < k
          /\ applied[j].fn = "calculateTimeToExpiration"
          /\ applied[k].fn = "calculateTimeToExpiration"
          /\ applied[j].expirationDate = applied[k].expirationDate
          => RatGeq(applied[j].result, applied[k].result)

C24_SpreadPercentDefined ==
    \A a \in Range(applied) :
        (a.fn = "calculateSpreadPercent" /\ a.bid >= 0 /\ a.ask >= 0) =>
            /\ IsFinite(a.result)
            /\ (a.bid = 0 \/ a.ask = 0) => a.result = RatInt(0)
            /\ (a.bid # 0 /\ a.ask # 0) =>
                  a.result = RatMul(RatDiv(RatInt(a.ask - a.bid), Rat(a.bid + a.ask, 2)),
                                    RatInt(100))

C24_Witness ==
    \E a \in Range(applied) :
        /\ a.fn = "calculateSpreadPercent"
        /\ a.bid = 0
        /\ a.ask > 0
        /\ a.result = RatInt(0)

(***************************************************************************)
(* C25: in every record processOptionData returns, hasLiquidityWarning is  *)
(* true iff volume < 1 or openInterest < 10, and hasSpreadWarning is true  *)
(* iff bidAskSpreadPercent > 10: a spread of exactly 10, and a quote with  *)
(* bid = 0 or ask = 0, raise no spread warning.                            *)
(***************************************************************************)
C25_WarningsAgree ==
    \A r \in Range(evaluations) :
        /\ r.hasLiquidityWarning <=> (r.volume < 1 \/ r.openInterest < 10)
        /\ r.hasSpreadWarning <=> RatLess(RatInt(10), r.bidAskSpreadPercent)
        /\ r.bidAskSpreadPercent = RatInt(10) => ~r.hasSpreadWarning
        /\ (r.bid = 0 \/ r.ask = 0) => ~r.hasSpreadWarning

C25_Witness ==
    \E r \in Range(evaluations) :
        /\ r.bid > 0
        /\ r.ask > r.bid
        /\ (r.ask - r.bid) * 10 = (r.bid + r.ask) \div 2
        /\ r.bidAskSpreadPercent = RatInt(10)
        /\ ~r.hasSpreadWarning

\* The tokens of a string: its maximal runs of characters other than commas
\* and whitespace, as pairs <<first, last>> of positions.
TokensOf(str) ==
    {t \in (1..Len(str)) \X (1..Len(str)) :
        /\ t[1] <= t[2]
        /\ \A k \in t[1]..t[2] : ~IsSeparator(str[k])
        /\ t[1] = 1 \/ IsSeparator(str[t[1] - 1])
        /\ t[2] = Len(str) \/ IsSeparator(str[t[2] + 1])}

\* The token, upper-cased.
UpperToken(str, t) == ToUpperCase(SubSeq(str, t[1], t[2]))

(***************************************************************************)
(* C26: parseSymbols returns the upper-cased tokens of its input (split on *)
(* commas and whitespace) that consist of 1 to 5 letters, each once, in    *)
(* the order of their first occurrences; a blank input gives the empty     *)
(* list; and parseSymbols of the result joined with ', ' is the result.    *)
(***************************************************************************)
C26_ParseSymbols ==
    \A a \in Range(applied) :
        a.fn = "parseSymbols" =>
            LET valid == {t \in TokensOf(a.input) :
                             MatchesSymbolPattern(UpperToken(a.input, t))}
                First(symbol) ==
                    CHOOSE t \in valid :
                        /\ UpperToken(a.input, t) = symbol
                        /\ \A u \in valid :
                              UpperToken(a.input, u) = symbol => t[1] <= u[1]
            IN  /\ Range(a.result) = {UpperToken(a.input, t) : t \in valid}
                /\ \A j, k \in 1..Len(a.result) : j # k => a.result[j] # a.result[k]
                /\ \A j, k \in 1..Len(a.result) :
                      j < k => First(a.result[j])[1] < First(a.result[k])[1]
                /\ (\A k \in 1..Len(a.input) : IsWhitespace(a.input[k])) => a.result = << >>
                /\ a.reparsed = a.result

C26_Witness ==
    \E a \in Range(applied) :
        /\ a.fn = "parseSymbols"
        /\ a.input = <<"a", "A", ",", "1", ",", "a">>
        /\ a.result = <<<<"A", "A">>, <<"A">>>>
        /\ a.formatted = <<"A", "A", ",", " ", "A">>

(***************************************************************************)
(* C27: no record processOptionData returns has hasStaleDataWarning true:  *)
(* its dataAge is 0 (table-based service) or at least 0 and below 5        *)
(* minutes (fetch-based service), never above the 15 minutes of the        *)
(* staleness threshold.                                                    *)
(***************************************************************************)
C27_NeverStale ==
    \A r \in Range(evaluations) :
        /\ ~r.hasStaleDataWarning
        /\ 0 <= r.dataAge /\ r.dataAge < 5
        /\ r.dataAge <= 15
        /\ impl = "mock" => r.dataAge = 0

C27_Witness ==
    \E r \in Range(evaluations) :
        /\ impl = "api"
        /\ r.dataAge = 4
        /\ ~r.hasStaleDataWarning

(***************************************************************************)
(* C28: at most one search is in flight on the page: a handleSearch starts *)
(* only while searchResults.isLoading is false and no call of              *)
(* searchOptionsData is pending, and isLoading is true exactly while a     *)
(* call is pending, so that no call settles after a later one started.     *)
(***************************************************************************)
C28_OneSearchInFlight ==
    [][/\ Len(searches') > Len(searches) =>
             (~searchResults.isLoading /\ searches = << >>)
       /\ Len(searches') <= 1
       /\ searchResults'.isLoading <=> (searches' # << >>)]_vars

C28_Witness ==
    /\ searchResults.isLoading
    /\ Len(searches) = 1
    /\ lastSettled.outcome = "fulfilled"
    /\ searches[1].query \in QuickSearches

(***************************************************************************)
(* C29: when handleSearch starts isLoading becomes true; while the search  *)
(* is pending the progress stays within [0, 100] and never decreases; when *)
(* searchOptionsData settles isLoading is false, with progress = 100,      *)
(* error = null and the returned records as opportunities, or with error   *)
(* set and connectionStatus = 'error'; and every search that starts        *)
(* leaves the loading state.                                               *)
(***************************************************************************)
C29_LoadingEnds ==
    /\ [][/\ Len(searches') > Len(searches) =>
                (searchResults'.isLoading /\ searchResults'.progress = RatInt(0))
          /\ searchResults'.isLoading =>
                (/\ RatGeq(searchResults'.progress, RatInt(0))
                 /\ RatGeq(RatInt(100), searchResults'.progress))
          /\ (searchResults.isLoading /\ searchResults'.isLoading) =>
                RatGeq(searchResults'.progress, searchResults.progress)
          /\ Len(searches') < Len(searches) =>
                (/\ ~searchResults'.isLoading
                 /\ \/ /\ lastSettled'.outcome = "fulfilled"
                       /\ searchResults'.progress = RatInt(100)
                       /\ searchResults'.error = NoError
                       /\ searchResults'.opportunities = lastSettled'.results
                    \/ /\ lastSettled'.outcome = "rejected"
                       /\ searchResults'.error # NoError
                       /\ connectionStatus' = "error")]_vars
    /\ (searchResults.isLoading ~> ~searchResults.isLoading)

C29_Witness ==
    /\ ~searchResults.isLoading
    /\ lastSettled.outcome = "fulfilled"
    /\ searchResults.progress = RatInt(100)
    /\ searchResults.error = NoError
    /\ Len(searchResults.opportunities) = 2
    /\ searchResults.opportunities = lastSettled.results

(***************************************************************************)
(* C30: searchHistory holds at most 5 queries and none twice; the query of *)
(* a search that starts is at its front, a query it already held is moved  *)
(* there, not added again, and the other queries keep their order.         *)
(***************************************************************************)
C30_HistoryRecentFirst ==
    [][/\ Len(searchHistory') <= 5
       /\ \A j, k \in 1..Len(searchHistory') :
             j # k => searchHistory'[j] # searchHistory'[k]
       /\ Len(searches') > Len(searches) =>
             LET q == searches'[Len(searches')].query
                 others == SelectSeq(searchHistory, LAMBDA item : item # q)
             IN  /\ searchHistory'[1] = q
                 /\ Len(searchHistory') = IF Len(others) < 4 THEN Len(others) + 1 ELSE 5
                 /\ \A k \in 2..Len(searchHistory') : searchHistory'[k] = others[k - 1]]_vars

C30_Witness ==
    /\ Len(searchHistory) = 5
    /\ searches # << >>
    /\ searchHistory[1] = searches[1].query
    /\ searchHistory[5] = searches[1].query \/ searchHistory[1] = <<"a">>

====
